---- MODULE Spec2Model ----
(***************************************************************************)
(* Model of gemini-endpoint-advisor:                                       *)
(*   - JamfClient.get_computers_inventory (jamf_client.py): bearer token   *)
(*     cache, paginated inventory fetch, one retry on 401.                 *)
(*   - build_fleet_snapshot / _is_version_compliant / _parse_version       *)
(*     (cli.py): the compliance aggregation.                               *)
(*   - JamfClient.__init__ (jamf_client.py): the credentials check.        *)
(*   - GeminiEndpointAdvisor.analyze_fleet (gemini_advisor.py): the        *)
(*     reading of the generator's answer.                                  *)
(*   - load_config (config.py): the merge of a file into DEFAULT_CONFIG.   *)
(* Spec      is the fetcher's state machine,                               *)
(* FairSpec  the same with the progress a synchronous call has,            *)
(* SpecAgg   the aggregator run over bounded device lists and policies,    *)
(* SpecCtor  the construction of a client and its first call,              *)
(* SpecAdv   analyze_fleet over the answers the generator may give,        *)
(* SpecCfg   sequences of load_config calls in one process.                *)
(***************************************************************************)
EXTENDS Integers, Sequences, FiniteSets, TLC

\* ------------------------------------------------------------------ bounds
MaxDevices == 3
MaxPageSize == 2
MaxBatch == 3
MaxCalls == 2
MaxFleet == 3

\* ------------------------------------------------------------ fetcher state
VARIABLES
    token,          \* self._token: 0 is None, a positive number a bearer token
    tokensIssued,   \* tokens the auth endpoint has handed out so far
    calls,          \* get_computers_inventory calls started on this instance
    pc,             \* position in get_computers_inventory
    page_size,      \* argument page_size
    max_devices,    \* argument max_devices
    page,           \* local page
    results,        \* local results
    resp,           \* local resp: the response raise_for_status will look at
    log,            \* the requests this call has put on the network, in order
    err,            \* the exception the call raised
    ret,            \* the list the call returned
    sent,           \* what the instance has put on the network over all its calls
    client          \* the JamfClient instance: what __init__ made of its arguments

\* --------------------------------------------------------- aggregator state
VARIABLES
    devices,            \* argument devices
    config,             \* argument config
    apc,                \* position in build_fleet_snapshot
    di,                 \* index of the next device of the for loop
    os_counts,          \* local os_counts (a Counter)
    fv_disabled,        \* local fv_disabled
    firewall_disabled,  \* local firewall_disabled
    noncompliant,       \* local noncompliant
    snapshot            \* the returned snapshot

\* ------------------------------------------------- constructor arguments
VARIABLES
    ctor_args       \* the arguments and environment JamfClient(...) is called with

\* ------------------------------------------------------------ advisor state
VARIABLES
    raw,            \* local raw of analyze_fleet: the generator's text, stripped
    advice          \* what analyze_fleet returned or raised

\* ------------------------------------------------------------- config state
VARIABLES
    default_config, \* the module-level DEFAULT_CONFIG, its nested slack dict included
    loaded,         \* what the last load_config call returned or raised
    loads           \* load_config calls made in this process

fetchVars == <<token, tokensIssued, calls, pc, page_size, max_devices, page,
               results, resp, log, err, ret, sent, client>>
advVars == <<raw, advice>>
cfgVars == <<default_config, loaded, loads>>
aggVars == <<devices, config, apc, di, os_counts, fv_disabled,
             firewall_disabled, noncompliant, snapshot>>
vars == <<fetchVars, aggVars, ctor_args, advVars, cfgVars>>
\* what the fetcher, and what the aggregator, never touches
nonFetchVars == <<aggVars, ctor_args, advVars, cfgVars>>
nonAggVars == <<fetchVars, ctor_args, advVars, cfgVars>>

\* ================================================================= fetcher
NoErr == [kind |-> "none", status |-> 0]
NoResp == [status |-> 0, n |-> 0]

\* What the server may answer to an inventory request: 0 stands for no
\* answer at all (connection failure or timeout, requests raises).
Statuses == {200, 401, 500, 0}
\* What the auth endpoint may answer to a token request.
TokenOutcomes == {"ok", "notoken", "rejected", "neterr"}

\* The records of one page: record i of page p.
Batch(p, n) == [i \in 1..n |-> <<p, i>>]

TokenEntry(st, t) ==
    [kind |-> "token", page |-> 0, size |-> 0, status |-> st, n |-> 0, tok |-> t]
InvEntry(p, sz, st, n, t) ==
    [kind |-> "inventory", page |-> p, size |-> sz, status |-> st, n |-> n, tok |-> t]

\* the status never looked at
raise_for_status_Never(st) == NoErr

\* resp.raise_for_status(): 4xx and 5xx raise HTTPError.
raise_for_status(st) ==
    IF st >= 400 THEN [kind |-> "HTTPError", status |-> st] ELSE NoErr

\* The token request of JamfClient._get_token, the auth endpoint answering
\* `outcome`: the token to send, the requests made, the exception raised,
\* the new cache.
request_token(issued, outcome) ==
    IF outcome = "neterr"
    THEN [tok |-> 0, reqs |-> <<TokenEntry(0, 0)>>,
          err |-> [kind |-> "ConnectionError", status |-> 0], cache |-> 0]
    ELSE IF outcome = "rejected"
    THEN [tok |-> 0, reqs |-> <<TokenEntry(401, 0)>>,
          err |-> raise_for_status(401), cache |-> 0]
    ELSE IF outcome = "notoken"
    THEN [tok |-> 0, reqs |-> <<TokenEntry(200, 0)>>,
          err |-> [kind |-> "RuntimeError", status |-> 0], cache |-> 0]
    ELSE [tok |-> issued + 1, reqs |-> <<TokenEntry(200, issued + 1)>>,
          err |-> NoErr, cache |-> issued + 1]

\* a token requested for every request, the cache never read
get_token_Uncached(cached, issued, outcome) == request_token(issued, outcome)

\* JamfClient._get_token: if self._token: return self._token
get_token(cached, issued, outcome) ==
    IF cached # 0
    THEN [tok |-> cached, reqs |-> <<>>, err |-> NoErr, cache |-> cached]
    ELSE request_token(issued, outcome)

\* return results, the cut forgotten
SliceTo_None(s, m) == s

\* Python's s[:m]
SliceTo(s, m) ==
    IF m >= 0
    THEN SubSeq(s, 1, IF m < Len(s) THEN m ELSE Len(s))
    ELSE SubSeq(s, 1, IF Len(s) + m > 0 THEN Len(s) + m ELSE 0)

\* while len(results) <= max_devices
LoopCondition_Inclusive(n, m) == n <= m

\* while len(results) < max_devices
LoopCondition(n, m) == n < m

\* the short page not taken for the last one
LastPage_Never(n, sz) == FALSE

\* if len(batch) < page_size: break
LastPage(n, sz) == n < sz

Finished == pc \in {"idle", "done", "raised"}

\* jamf.get_computers_inventory(page_size=ps, max_devices=md)
Call(ps, md) ==
    /\ client.state = "ready"
    /\ Finished
    /\ calls < MaxCalls
    /\ calls' = calls + 1
    /\ page_size' = ps
    /\ max_devices' = md
    /\ page' = 0
    /\ results' = <<>>
    /\ resp' = NoResp
    /\ log' = <<>>
    /\ err' = NoErr
    /\ ret' = <<>>
    /\ pc' = "while"
    /\ UNCHANGED <<token, tokensIssued, sent, client>>
    /\ UNCHANGED nonFetchVars

\* The loop test; when it fails, return results[:max_devices].
WhileTest ==
    /\ pc = "while"
    /\ IF LoopCondition(Len(results), max_devices)
       THEN /\ pc' = "request"
            /\ ret' = ret
       ELSE /\ pc' = "done"
            /\ ret' = SliceTo(results, max_devices)
    /\ UNCHANGED <<token, tokensIssued, calls, page_size, max_devices, page,
                   results, resp, log, err, sent, client>>
    /\ UNCHANGED nonFetchVars

\* the 401 branch never taken
Retrying_Never(first, st) == FALSE

\* while resp.status_code == 401: every 401 retried
Retrying_Always(first, st) == st = 401

\* if resp.status_code == 401: only the first response of a page is tested
Retrying(first, st) == first /\ st = 401

\* the cached token kept for the retry
TokenAfter401_Kept(cached) == cached

\* self._token = None
TokenAfter401(cached) == 0

\* One inventory request: self._headers() first (a token request when none
\* is cached), then requests.get, the server answering status st with n
\* records; `first` tells the request of line 98 from the retry of line 107.
SendRequest(outcome, st, n, first) ==
    LET t == get_token(token, tokensIssued, outcome)
        e == InvEntry(page, page_size, st, IF st = 200 THEN n ELSE 0, t.tok)
        inv == t.err = NoErr
    IN  /\ tokensIssued' = IF t.cache > tokensIssued THEN t.cache ELSE tokensIssued
        /\ sent' = [token |-> sent.token + Len(t.reqs),
                    token_failed |-> sent.token_failed \/ t.err # NoErr,
                    inventory |-> sent.inventory \/ inv,
                    unauthorized |-> \/ sent.unauthorized
                                    \/ (inv /\ st = 401)
                                    \/ \E k \in 1..Len(t.reqs) : t.reqs[k].status = 401]
        /\ IF t.err # NoErr
           THEN \* _get_token raised
                /\ log' = log \o t.reqs
                /\ err' = t.err
                /\ pc' = "raised"
                /\ token' = t.cache
                /\ resp' = resp
           ELSE IF st = 0
           THEN \* requests.get raised
                /\ log' = log \o t.reqs \o <<e>>
                /\ err' = [kind |-> "ConnectionError", status |-> 0]
                /\ pc' = "raised"
                /\ token' = t.cache
                /\ resp' = resp
           ELSE IF Retrying(first, st)
           THEN /\ log' = log \o t.reqs \o <<e>>
                /\ err' = err
                /\ pc' = "retry"
                /\ token' = TokenAfter401(t.cache)
                /\ resp' = resp
           ELSE /\ log' = log \o t.reqs \o <<e>>
                /\ err' = err
                /\ pc' = "status"
                /\ token' = t.cache
                /\ resp' = [status |-> st, n |-> IF st = 200 THEN n ELSE 0]
        /\ UNCHANGED <<calls, page_size, max_devices, page, results, ret, client>>

\* resp = requests.get(...); if resp.status_code == 401: self._token = None
FirstRequest ==
    /\ pc = "request"
    /\ \E outcome \in TokenOutcomes, st \in Statuses, n \in 0..MaxBatch :
          SendRequest(outcome, st, n, TRUE)
    /\ UNCHANGED nonFetchVars

\* the retry inside the 401 branch
RetryRequest ==
    /\ pc = "retry"
    /\ \E outcome \in TokenOutcomes, st \in Statuses, n \in 0..MaxBatch :
          SendRequest(outcome, st, n, FALSE)
    /\ UNCHANGED nonFetchVars

\* resp.raise_for_status() and the rest of the loop body; a break returns
\* results[:max_devices].
ProcessResponse ==
    /\ pc = "status"
    /\ LET e == raise_for_status(resp.status)
           batch == Batch(page, resp.n)
           extended == results \o batch
       IN  IF e # NoErr
           THEN /\ err' = e
                /\ pc' = "raised"
                /\ UNCHANGED <<results, page, ret>>
           ELSE IF Len(batch) = 0
           THEN /\ pc' = "done"
                /\ ret' = SliceTo(results, max_devices)
                /\ UNCHANGED <<results, page, err>>
           ELSE IF LastPage(Len(batch), page_size)
           THEN /\ results' = extended
                /\ pc' = "done"
                /\ ret' = SliceTo(extended, max_devices)
                /\ UNCHANGED <<page, err>>
           ELSE /\ results' = extended
                /\ page' = page + 1
                /\ pc' = "while"
                /\ UNCHANGED <<err, ret>>
    /\ UNCHANGED <<token, tokensIssued, calls, page_size, max_devices, resp, log,
                   sent, client>>
    /\ UNCHANGED nonFetchVars

PageSizes == (0 - 1)..MaxPageSize
MaxDevicesArgs == (0 - 1)..MaxDevices

StartCall == \E ps \in PageSizes, md \in MaxDevicesArgs : Call(ps, md)

\* the steps of a call in progress
CallStep == WhileTest \/ FirstRequest \/ RetryRequest \/ ProcessResponse

NothingSent ==
    [token |-> 0, token_failed |-> FALSE, inventory |-> FALSE, unauthorized |-> FALSE]

\* ------------------------------------------------------------ constructor
\* An Optional[str], and an environment variable that may be unset: None, or
\* a string as the sequence of its characters.
None == [none |-> TRUE, s |-> <<>>]
Str(s) == [none |-> FALSE, s |-> s]

\* Python's truth of an Optional[str]
Truthy(x) == ~x.none /\ x.s # <<>>

\* x or y
Or(x, y) == IF Truthy(x) THEN x ELSE y

\* os.environ.get(KEY, "")
environ_get(e) == IF e.none THEN Str(<<>>) ELSE e

\* s.rstrip("/")
RECURSIVE rstrip(_)
rstrip(s) ==
    IF s # <<>> /\ s[Len(s)] = "/" THEN rstrip(SubSeq(s, 1, Len(s) - 1)) ELSE s

\* if not self.client_id: the secret never looked at
credentials_missing_IdOnly(id, secret) == id = <<>>

\* if not self.client_id or not self.client_secret
credentials_missing(id, secret) == id = <<>> \/ secret = <<>>

\* no JamfClient(...) evaluated yet
NoClient == [state |-> "none", base_url |-> <<>>, client_id |-> <<>>,
             client_secret |-> <<>>]
\* a client built from a base URL, a client id and a client secret
ReadyClient == [state |-> "ready", base_url |-> <<"u">>, client_id |-> <<"i">>,
                client_secret |-> <<"s">>]
\* the arguments of __init__ once it has returned or raised
NoArgs == [base_url |-> None, client_id |-> None, client_secret |-> None,
           env_base_url |-> None, env_client_id |-> None, env_client_secret |-> None]

\* JamfClient(base_url, client_id, client_secret) under the environment of
\* ctor_args: the attributes are set, then checked; ValueError leaves no
\* instance to the caller.
Construct ==
    /\ client.state = "none"
    /\ LET a == ctor_args
           base_url == rstrip(Or(a.base_url, environ_get(a.env_base_url)).s)
           client_id == Or(a.client_id, environ_get(a.env_client_id)).s
           client_secret == Or(a.client_secret, environ_get(a.env_client_secret)).s
           raises == base_url = <<>> \/ credentials_missing(client_id, client_secret)
       IN  /\ client' = [state |-> IF raises THEN "raised" ELSE "ready",
                         base_url |-> base_url, client_id |-> client_id,
                         client_secret |-> client_secret]
           /\ token' = IF raises THEN token ELSE 0
    /\ ctor_args' = NoArgs
    /\ UNCHANGED <<tokensIssued, calls, pc, page_size, max_devices, page,
                   results, resp, log, err, ret, sent>>
    /\ UNCHANGED <<aggVars, advVars, cfgVars>>

BaseUrlArgs == {None, Str(<<>>), Str(<<"/">>), Str(<<"u">>), Str(<<"u", "/">>)}
BaseUrlEnvs == {None, Str(<<>>), Str(<<"u">>)}
ClientIdArgs == {None, Str(<<>>), Str(<<"i">>)}
ClientIdEnvs == {None, Str(<<"i">>)}
ClientSecretArgs == {None, Str(<<>>), Str(<<"s">>)}
ClientSecretEnvs == {None, Str(<<"s">>)}

CtorInputs ==
    [base_url : BaseUrlArgs, client_id : ClientIdArgs, client_secret : ClientSecretArgs,
     env_base_url : BaseUrlEnvs, env_client_id : ClientIdEnvs,
     env_client_secret : ClientSecretEnvs]

InitFetch ==
    /\ token = 0
    /\ tokensIssued = 0
    /\ calls = 0
    /\ pc = "idle"
    /\ page_size = 0
    /\ max_devices = 0
    /\ page = 0
    /\ results = <<>>
    /\ resp = NoResp
    /\ log = <<>>
    /\ err = NoErr
    /\ ret = <<>>
    /\ sent = NothingSent

\* ============================================================== aggregator
\* Strings are sequences of one-character strings, so that split and float
\* work on what they are given.
Digits == {"0", "1", "2", "3", "4", "5", "6", "7", "8", "9"}
DigitVal ==
    "0" :> 0 @@ "1" :> 1 @@ "2" :> 2 @@ "3" :> 3 @@ "4" :> 4 @@
    "5" :> 5 @@ "6" :> 6 @@ "7" :> 7 @@ "8" :> 8 @@ "9" :> 9

UNKNOWN == <<"u", "n", "k", "n", "o", "w", "n">>
DEFAULT_MIN == <<"1", "4", ".", "0">>

\* str.split(".")
RECURSIVE split(_)
split(s) ==
    IF \A i \in 1..Len(s) : s[i] # "."
    THEN <<s>>
    ELSE LET i == CHOOSE k \in 1..Len(s) :
                     s[k] = "." /\ \A j \in 1..(k - 1) : s[j] # "."
         IN  <<SubSeq(s, 1, i - 1)>> \o split(SubSeq(s, i + 1, Len(s)))

\* the value of a digit string, "" being 0
RECURSIVE int_of(_)
int_of(ds) ==
    IF Len(ds) = 0 THEN 0
    ELSE 10 * int_of(SubSeq(ds, 1, Len(ds) - 1)) + DigitVal[ds[Len(ds)]]

\* a digit string as digit values, trailing zeros dropped
RECURSIVE frac_of(_)
frac_of(ds) ==
    IF Len(ds) = 0 THEN <<>>
    ELSE IF ds[Len(ds)] = "0" THEN frac_of(SubSeq(ds, 1, Len(ds) - 1))
    ELSE [i \in 1..Len(ds) |-> DigitVal[ds[i]]]

ValueError == [ok |-> FALSE, ip |-> 0, fd |-> <<>>]

\* float(s) for s over digits, "." and other characters (no sign, exponent,
\* blank, underscore, inf or nan occurs in the inputs): digits with at most
\* one point and at least one digit, anything else raising ValueError. The
\* value is kept exactly: integer part ip, fraction digits fd.
float(s) ==
    LET parts == split(s)
        digits(x) == \A i \in 1..Len(x) : x[i] \in Digits
    IN  IF Len(parts) = 1 /\ digits(parts[1]) /\ Len(parts[1]) > 0
        THEN [ok |-> TRUE, ip |-> int_of(parts[1]), fd |-> <<>>]
        ELSE IF /\ Len(parts) = 2
                /\ digits(parts[1]) /\ digits(parts[2])
                /\ Len(parts[1]) + Len(parts[2]) > 0
        THEN [ok |-> TRUE, ip |-> int_of(parts[1]), fd |-> frac_of(parts[2])]
        ELSE ValueError

\* x >= y on float values
FloatGE(x, y) ==
    LET n == IF Len(x.fd) > Len(y.fd) THEN Len(x.fd) ELSE Len(y.fd)
        dx(i) == IF i <= Len(x.fd) THEN x.fd[i] ELSE 0
        dy(i) == IF i <= Len(y.fd) THEN y.fd[i] ELSE 0
    IN  \/ x.ip > y.ip
        \/ /\ x.ip = y.ip
           /\ \/ \A i \in 1..n : dx(i) = dy(i)
              \/ \E i \in 1..n : dx(i) > dy(i) /\ \A j \in 1..(i - 1) : dx(j) = dy(j)

\* _parse_version: major.minor as float, e.g. "14.5" -> 14.5
parse_version(version) ==
    LET parts == split(version)
    IN  IF Len(parts) = 1
        THEN float(parts[1])
        ELSE float(parts[1] \o <<".">> \o parts[2])

\* except Exception: version_ok = True
version_ok_Lenient(os_version, min_version) ==
    LET a == parse_version(os_version)
        b == parse_version(min_version)
    IN  IF a.ok /\ b.ok THEN FloatGE(a, b) ELSE TRUE

\* the try/except around the comparison of the two parsed versions
version_ok(os_version, min_version) ==
    LET a == parse_version(os_version)
        b == parse_version(min_version)
    IN  IF a.ok /\ b.ok THEN FloatGE(a, b) ELSE FALSE

is_version_compliant(os_version, min_version, fv_enabled, fw_enabled,
                     require_fv, require_fw) ==
    LET fv_ok == (~require_fv) \/ fv_enabled
        fw_ok == (~require_fw) \/ fw_enabled
    IN  version_ok(os_version, min_version) /\ fv_ok /\ fw_ok

\* A device record of the inventory. os and sec say what the record holds
\* under "operatingSystem" and "security" ("missing", "null" or "dict"), ver
\* what the operating system section holds under "version" ("missing", "null"
\* or "str", the string being vstr), fv and fw what the security section holds
\* under "fileVaultEnabled" and "firewallEnabled" ("missing", "true", "false").
\* A section of the wrong type (a non-empty string instead of an object) is "str".
Device(os, ver, vstr, sec, fv, fw) ==
    [os |-> os, ver |-> ver, vstr |-> vstr, sec |-> sec, fv |-> fv, fw |-> fw]

\* the empty version string not replaced by "unknown"
os_version_of_EmptyKept(d) ==
    IF d.os = "dict" /\ d.ver = "str" THEN d.vstr ELSE UNKNOWN

\* d.get("operatingSystem", {}) or {}, then .get("version", "unknown") or "unknown"
os_version_of(d) ==
    IF d.os = "dict" /\ d.ver = "str" /\ d.vstr # <<>> THEN d.vstr ELSE UNKNOWN

\* bool((d.get("security", {}) or {}).get(key, False))
control_of(d, field) == d.sec = "dict" /\ field = "true"

\* config.get("min_macos_version", "14.0")
min_macos_of(c) == IF c.has_min THEN c.min ELSE DEFAULT_MIN

\* config.get("max_noncompliant_percentage", 10)
DEFAULT_MAX_PERCENTAGE == 10
max_percentage_of(c) == IF c.has_max THEN c.max ELSE DEFAULT_MAX_PERCENTAGE

\* bool(config.get(key, True))
require_of(field) == field # "false"

\* only the version of the last device kept in the tally
Increment_Forgetful(counter, key) ==
    key :> (IF key \in DOMAIN counter THEN counter[key] + 1 ELSE 1)

\* os_counts[key] += 1
Increment(counter, key) ==
    IF key \in DOMAIN counter
    THEN [counter EXCEPT ![key] = @ + 1]
    ELSE counter @@ (key :> 1)

\* the compliance test applied to every device, "unknown" or not
CountsNoncompliant_UnknownToo(d, c) ==
    ~is_version_compliant(os_version_of(d), min_macos_of(c),
                          control_of(d, d.fv), control_of(d, d.fw),
                          require_of(c.require_filevault),
                          require_of(c.require_firewall))

\* if os_version != "unknown": if not _is_version_compliant(...): noncompliant += 1
CountsNoncompliant(d, c) ==
    /\ os_version_of(d) # UNKNOWN
    /\ ~is_version_compliant(os_version_of(d), min_macos_of(c),
                             control_of(d, d.fv), control_of(d, d.fw),
                             require_of(c.require_filevault),
                             require_of(c.require_firewall))

\* the percentage cut to two decimals instead of rounded
Percentage_Truncated(n, total) ==
    IF total > 0 THEN (n * 10000) \div total ELSE 0

\* round(noncompliant / total * 100, 2) if total > 0 else 0.0, in hundredths
\* (round half to even on the exact quotient)
Percentage(n, total) ==
    IF total > 0
    THEN LET q == (n * 10000) \div total
             r == (n * 10000) % total
         IN  IF 2 * r > total \/ (2 * r = total /\ q % 2 = 1) THEN q + 1 ELSE q
    ELSE 0

NoSnapshot ==
    [total_devices |-> 0, os_version_breakdown |-> <<>>,
     filevault_disabled_count |-> 0, firewall_disabled_count |-> 0,
     noncompliant_count |-> 0, noncompliant_percentage |-> 0,
     min_macos_version |-> <<>>, require_filevault |-> FALSE,
     require_firewall |-> FALSE, max_noncompliant_percentage |-> 0]

NoConfig ==
    [has_min |-> FALSE, min |-> <<>>, require_filevault |-> "missing",
     require_firewall |-> "missing", has_max |-> FALSE, max |-> 0]

\* (d.get(key, {}) or {}).get(...): a non-empty value that is no dict has no
\* .get, and the attribute lookup raises AttributeError
GetRaises(section) == section = "str"

\* one iteration of `for d in devices`
AggStep ==
    /\ apc = "loop"
    /\ di <= Len(devices)
    /\ LET d == devices[di]
           fv_enabled == control_of(d, d.fv)
           fw_enabled == control_of(d, d.fw)
       IN  IF GetRaises(d.os)
           THEN \* os_info.get("version", ...) raises AttributeError
                /\ apc' = "raised"
                /\ UNCHANGED <<di, os_counts, fv_disabled, firewall_disabled,
                               noncompliant>>
           ELSE IF GetRaises(d.sec)
           THEN \* security.get("fileVaultEnabled", ...) raises AttributeError
                /\ os_counts' = Increment(os_counts, os_version_of(d))
                /\ apc' = "raised"
                /\ UNCHANGED <<di, fv_disabled, firewall_disabled, noncompliant>>
           ELSE /\ os_counts' = Increment(os_counts, os_version_of(d))
                /\ fv_disabled' =
                      IF require_of(config.require_filevault) /\ ~fv_enabled
                      THEN fv_disabled + 1 ELSE fv_disabled
                /\ firewall_disabled' =
                      IF require_of(config.require_firewall) /\ ~fw_enabled
                      THEN firewall_disabled + 1 ELSE firewall_disabled
                /\ noncompliant' =
                      IF CountsNoncompliant(d, config)
                      THEN noncompliant + 1 ELSE noncompliant
                /\ di' = di + 1
                /\ apc' = apc
    /\ UNCHANGED <<devices, config, snapshot>>
    /\ UNCHANGED nonAggVars

\* after the loop: the totals, the percentage and the snapshot
AggFinish ==
    /\ apc = "loop"
    /\ di > Len(devices)
    /\ snapshot' =
          [total_devices |-> Len(devices),
           os_version_breakdown |-> os_counts,
           filevault_disabled_count |-> fv_disabled,
           firewall_disabled_count |-> firewall_disabled,
           noncompliant_count |-> noncompliant,
           noncompliant_percentage |-> Percentage(noncompliant, Len(devices)),
           min_macos_version |-> min_macos_of(config),
           require_filevault |-> require_of(config.require_filevault),
           require_firewall |-> require_of(config.require_firewall),
           max_noncompliant_percentage |-> max_percentage_of(config)]
    /\ apc' = "done"
    /\ UNCHANGED <<devices, config, di, os_counts, fv_disabled,
                   firewall_disabled, noncompliant>>
    /\ UNCHANGED nonAggVars

\* ---- the inputs of the aggregator
V_14_10 == <<"1", "4", ".", "1", "0">>
V_14_9 == <<"1", "4", ".", "9">>
V_14_0 == <<"1", "4", ".", "0">>
V_13_9 == <<"1", "3", ".", "9">>
V_13_10 == <<"1", "3", ".", "1", "0">>
V_NA == <<"N", "/", "A">>

DeviceInputs ==
    { Device("dict", "str", V_14_10, "dict", "true", "true"),
      Device("dict", "str", V_14_9, "dict", "true", "true"),
      Device("dict", "str", V_13_9, "dict", "true", "true"),
      Device("dict", "str", V_14_0, "dict", "false", "true"),
      Device("dict", "str", V_14_0, "dict", "true", "false"),
      Device("dict", "str", V_NA, "dict", "true", "true"),
      Device("dict", "str", UNKNOWN, "dict", "false", "false"),
      Device("missing", "missing", <<>>, "dict", "false", "false"),
      Device("null", "missing", <<>>, "dict", "true", "true"),
      Device("dict", "missing", <<>>, "missing", "missing", "missing"),
      Device("dict", "null", <<>>, "null", "missing", "missing"),
      Device("dict", "str", <<>>, "dict", "missing", "true"),
      Device("str", "missing", <<>>, "dict", "true", "true"),
      Device("dict", "str", V_14_0, "str", "missing", "missing") }

Config(has_min, min, rfv, rfw) ==
    [has_min |-> has_min, min |-> min, require_filevault |-> rfv,
     require_firewall |-> rfw, has_max |-> has_min, max |-> IF has_min THEN 25 ELSE 0]

ConfigInputs ==
    { Config(TRUE, V_14_9, "true", "true"),
      Config(TRUE, V_14_0, "true", "true"),
      Config(TRUE, V_13_10, "true", "true"),
      Config(FALSE, <<>>, "missing", "missing"),
      Config(TRUE, V_14_0, "false", "false"),
      Config(TRUE, V_14_9, "false", "true"),
      Config(TRUE, V_14_0, "true", "false"),
      Config(TRUE, V_NA, "false", "false") }

DeviceLists == UNION { [1..n -> DeviceInputs] : n \in 0..MaxFleet }

AggIdle ==
    /\ devices = <<>>
    /\ config = NoConfig
    /\ apc = "idle"
    /\ di = 0
    /\ os_counts = <<>>
    /\ fv_disabled = 0
    /\ firewall_disabled = 0
    /\ noncompliant = 0
    /\ snapshot = NoSnapshot

\* build_fleet_snapshot(devices, config) entered: the locals initialised
InitAgg ==
    /\ devices \in DeviceLists
    /\ config \in ConfigInputs
    /\ apc = "loop"
    /\ di = 1
    /\ os_counts = <<>>
    /\ fv_disabled = 0
    /\ firewall_disabled = 0
    /\ noncompliant = 0
    /\ snapshot = NoSnapshot

NextAgg == AggStep \/ AggFinish

\* ================================================================= advisor
\* The generator's text is kept with what json.loads makes of it: type is
\* "invalid" when json.loads raises JSONDecodeError, else the type of the
\* Python value; a dict carries the values of the three keys the code reads.
Missing == [type |-> "missing", text |-> ""]
NoFields == [summary |-> Missing, remediation_plan |-> Missing, slack_message |-> Missing]
Json(type, text, fields) == [type |-> type, text |-> text, fields |-> fields]

NoRaw == Json("none", "", NoFields)
NoAdvice == [state |-> "none", error |-> "", summary |-> "", remediation_plan |-> "",
             slack_message |-> ""]

\* what a key of the answer may hold: absent, a string, a number, null, a list
FieldValues ==
    {Missing, [type |-> "str", text |-> "All good"], [type |-> "int", text |-> "42"],
     [type |-> "NoneType", text |-> "null"], [type |-> "list", text |-> "[\"a\"]"]}

\* the answers of the generator, stripped
RawTexts ==
    {Json("invalid", "", NoFields),
     Json("invalid", "Here is the posture summary", NoFields),
     Json("invalid", "{\"summary\": ", NoFields),
     Json("list", "[1, 2]", NoFields),
     Json("int", "42", NoFields),
     Json("str", "\"All good\"", NoFields),
     Json("NoneType", "null", NoFields),
     Json("bool", "true", NoFields)}
    \cup {Json("dict", "{...}", f) :
             f \in [summary : FieldValues, remediation_plan : FieldValues,
                    slack_message : FieldValues]}

\* str(v) of a value json.loads produced
str(v) ==
    IF v.type = "NoneType" THEN "None"
    ELSE IF v.type = "list" THEN "['a']"
    ELSE v.text

\* parsed.get(key, ""): only a dict has get
HasGet(parsed) == parsed.type = "dict"
get(parsed, key) ==
    IF parsed.fields[key] = Missing THEN [type |-> "str", text |-> ""]
    ELSE parsed.fields[key]

\* raw = self._call_gemini(base_prompt).strip(); the generator's errors
\* propagate
CallGemini ==
    /\ advice.state = "none"
    /\ raw = NoRaw
    /\ \/ /\ raw' \in RawTexts
          /\ advice' = advice
       \/ /\ raw' = raw
          /\ advice' = [NoAdvice EXCEPT !.state = "raised", !.error = "generator"]
    /\ UNCHANGED <<fetchVars, aggVars, ctor_args, cfgVars>>

\* the rest of analyze_fleet: json.loads(raw), the safety net, the three gets
ParseAnswer ==
    /\ advice.state = "none"
    /\ raw # NoRaw
    /\ advice' =
          IF raw.type = "invalid"
          THEN [state |-> "returned", error |-> "", summary |-> raw.text,
                remediation_plan |-> "", slack_message |-> ""]
          ELSE IF ~HasGet(raw)
          THEN [NoAdvice EXCEPT !.state = "raised", !.error = "AttributeError"]
          ELSE [state |-> "returned", error |-> "",
                summary |-> str(get(raw, "summary")),
                remediation_plan |-> str(get(raw, "remediation_plan")),
                slack_message |-> str(get(raw, "slack_message"))]
    /\ raw' = raw
    /\ UNCHANGED <<fetchVars, aggVars, ctor_args, cfgVars>>

NextAdv == CallGemini \/ ParseAnswer

\* ================================================================== config
\* DEFAULT_CONFIG as the module defines it.  Of the scalar keys
\* min_macos_version and require_filevault are kept, of the keys of the
\* nested slack dict title and channel; the others are handled by the same
\* lines.
DEFAULT_CONFIG ==
    [min_macos_version |-> "14.0",
     require_filevault |-> "True",
     slack |-> [title |-> "Weekly Endpoint Posture Summary",
                channel |-> "#client-platform"]]

\* A dict load_config returned.  dict.copy() is shallow: the value under
\* "slack" is either the very dict object DEFAULT_CONFIG holds (slack_is
\* "shared", its content read from default_config) or the non-dict value a
\* file put in its place (slack_is "scalar").
NotLoaded == [state |-> "none", path |-> "", min_macos_version |-> "",
              require_filevault |-> "", slack_is |-> "shared", slack_scalar |-> ""]

\* DEFAULT_CONFIG.copy()
Copy(d) == [state |-> "returned", path |-> "",
            min_macos_version |-> d.min_macos_version,
            require_filevault |-> d.require_filevault,
            slack_is |-> "shared", slack_scalar |-> ""]

\* What yaml.safe_load reads from each path; "" under a key: key not in the
\* file.  slack is "" (no such key), "dict" (a mapping, with the title and
\* the channel it gives) or "scalar" (a plain value).
File(exists, min, rfv, slack, title, channel) ==
    [exists |-> exists, min_macos_version |-> min, require_filevault |-> rfv,
     slack |-> slack, title |-> title, channel |-> channel]

FileSystem ==
    [p \in {"missing.yaml", "empty.yaml", "min.yaml", "filevault.yaml", "policy.yaml",
            "title.yaml", "channel.yaml", "slack.yaml", "all.yaml", "scalar.yaml"} |->
        CASE p = "missing.yaml" -> File(FALSE, "", "", "", "", "")
          [] p = "empty.yaml" -> File(TRUE, "", "", "", "", "")
          [] p = "min.yaml" -> File(TRUE, "15.0", "", "", "", "")
          [] p = "filevault.yaml" -> File(TRUE, "", "False", "", "", "")
          [] p = "policy.yaml" -> File(TRUE, "15.0", "False", "", "", "")
          [] p = "slack.yaml" -> File(TRUE, "", "", "dict", "Daily posture", "#it-ops")
          [] p = "title.yaml" -> File(TRUE, "", "", "dict", "Fleet report", "")
          [] p = "channel.yaml" -> File(TRUE, "", "", "dict", "", "#secops")
          [] p = "all.yaml" -> File(TRUE, "13.0", "False", "dict", "Fleet report", "#secops")
          [] p = "scalar.yaml" -> File(TRUE, "", "", "scalar", "", "")]

\* the path argument ("" for None) and the environment variable ("" for unset)
PathArgs == {""} \cup DOMAIN FileSystem
PathEnvs == {"", "min.yaml", "title.yaml"}

\* load_config calls made in one process
MaxLoads == 3

\* value if the file gives the key, else what the copy holds
Override(value, kept) == IF value # "" THEN value ELSE kept

\* merged[key].update(value) on the dict merged shares with DEFAULT_CONFIG
update(slack, f) ==
    [title |-> Override(f.title, slack.title),
     channel |-> Override(f.channel, slack.channel)]

\* load_config(path) under the environment variable env
load_config(path, env) ==
    LET config_path == IF path # "" THEN path ELSE env
        f == FileSystem[config_path]
    IN  /\ loads < MaxLoads
        /\ loads' = loads + 1
        /\ IF config_path = ""
           THEN /\ loaded' = Copy(default_config)
                /\ default_config' = default_config
           ELSE IF ~f.exists
           THEN /\ loaded' = [NotLoaded EXCEPT !.state = "FileNotFoundError",
                                               !.path = config_path]
                /\ default_config' = default_config
           ELSE /\ loaded' =
                     [state |-> "returned", path |-> config_path,
                      min_macos_version |->
                          Override(f.min_macos_version, default_config.min_macos_version),
                      require_filevault |->
                          Override(f.require_filevault, default_config.require_filevault),
                      slack_is |-> IF f.slack = "scalar" THEN "scalar" ELSE "shared",
                      slack_scalar |-> IF f.slack = "scalar" THEN "off" ELSE ""]
                /\ default_config' =
                     IF f.slack = "dict"
                     THEN [default_config EXCEPT !.slack = update(@, f)]
                     ELSE default_config
        /\ UNCHANGED <<fetchVars, aggVars, ctor_args, advVars>>

LoadConfig == \E path \in PathArgs, env \in PathEnvs : load_config(path, env)

NextCfg == LoadConfig

\* the components a specification leaves alone
ClientIdle == client = ReadyClient /\ ctor_args = NoArgs
AdvIdle == raw = NoRaw /\ advice = NoAdvice
CfgIdle == default_config = DEFAULT_CONFIG /\ loaded = NotLoaded /\ loads = 0

\* a JamfClient(...) expression about to be evaluated, nothing called yet
InitCtor == client = NoClient /\ ctor_args \in CtorInputs

InitCtorSpec == InitFetch /\ InitCtor /\ AggIdle /\ AdvIdle /\ CfgIdle

NextCtor ==
    \/ Construct
    \/ StartCall
    \/ WhileTest
    \/ FirstRequest
    \/ RetryRequest
    \/ ProcessResponse

SpecCtor == InitCtorSpec /\ [][NextCtor]_vars

InitAdvSpec == InitFetch /\ ClientIdle /\ AggIdle /\ AdvIdle /\ CfgIdle

SpecAdv == InitAdvSpec /\ [][NextAdv]_vars

InitCfgSpec == InitFetch /\ ClientIdle /\ AggIdle /\ AdvIdle /\ CfgIdle

SpecCfg == InitCfgSpec /\ [][NextCfg]_vars

InitAggSpec == InitFetch /\ ClientIdle /\ InitAgg /\ AdvIdle /\ CfgIdle

SpecAgg == InitAggSpec /\ [][NextAgg]_vars

Init == InitFetch /\ ClientIdle /\ AggIdle /\ AdvIdle /\ CfgIdle

Next ==
    \/ StartCall
    \/ WhileTest
    \/ FirstRequest
    \/ RetryRequest
    \/ ProcessResponse

Spec == Init /\ [][Next]_vars

\* A call is synchronous: once started it runs until it returns or raises.
FairSpec == Spec /\ WF_vars(CallStep)


\* ================================================= properties: the fetcher
InvIdx == {i \in 1..Len(log) : log[i].kind = "inventory"}
TokIdx == {i \in 1..Len(log) : log[i].kind = "token"}

\* i and j are a request of a page answered 401 and the retry of that page
RetryPair(i, j) ==
    /\ i \in InvIdx /\ j \in InvIdx /\ i < j
    /\ \A k \in InvIdx : ~(i < k /\ k < j)
    /\ log[i].status = 401
    /\ log[j].page = log[i].page

\* the response of the last request has been looked at
Examined == pc # "status"

\* the records of page p in the accumulated list
RecordsOf(p) == {k \in 1..Len(results) : results[k][1] = p}

\* C2: a page whose request is answered 401 and whose retry is answered with
\* success costs exactly two inventory requests with the same page index and
\* page size; between them the cached token is dropped and exactly one token
\* request fetches the token the retry carries; the page's records are
\* accumulated once and the loop goes on as after any successful page.
C2_RetryAfter401Succeeds ==
    \A i \in InvIdx, j \in InvIdx :
        (RetryPair(i, j) /\ log[j].status = 200) =>
            LET p == log[j].page
                n == log[j].n
            IN  /\ Cardinality({k \in InvIdx : log[k].page = p}) = 2
                /\ log[i].size = page_size /\ log[j].size = page_size
                /\ j = i + 2
                /\ log[i + 1].kind = "token" /\ log[i + 1].status = 200
                /\ log[i + 1].tok # 0
                /\ log[j].tok = log[i + 1].tok
                /\ log[j].tok # log[i].tok
                /\ (pc = "status" /\ page = p) => token = log[j].tok
                /\ (Examined \/ page > p) =>
                      /\ pc # "raised" \/ page > p
                      /\ Cardinality(RecordsOf(p)) = n
                      /\ (n = 0 \/ n < page_size) => (pc = "done" /\ page = p)
                      /\ (n > 0 /\ n >= page_size) => page > p

C2_Witness ==
    /\ pc = "done"
    /\ Len(log) = 5
    /\ log[1].kind = "token"
    /\ log[2] = InvEntry(0, 1, 401, 0, 1)
    /\ log[3] = TokenEntry(200, 2)
    /\ log[4] = InvEntry(0, 1, 200, 1, 2)
    /\ log[5] = InvEntry(1, 1, 200, 1, 2)
    /\ ret = <<<<0, 1>>, <<1, 1>>>>

\* the call has answered two 401s on one page: indices of request and retry
Double401(i, j) == RetryPair(i, j) /\ log[j].status = 401

C4_NoRequestWhenCapNotPositive ==
    (pc # "idle" /\ max_devices <= 0) =>
        /\ log = <<>>
        /\ pc \in {"while", "done"}
        /\ err = NoErr
        /\ pc = "done" => ret = <<>>

C4_Witness ==
    /\ pc = "done"
    /\ max_devices < 0
    /\ page_size = 1
    /\ token # 0
    /\ calls = 2
    /\ ret = <<>>
    /\ log = <<>>

\* every inventory request so far was answered 200 with exactly page_size records
AllPagesFull == \A i \in InvIdx : log[i].status = 200 /\ log[i].n = page_size

Ceil(a, b) == (a + b - 1) \div b

\* C5: with max_devices >= 1, page_size >= 1 and every page answered with
\* exactly page_size records (no 401, no error), a call that returns has
\* issued exactly ceil(max_devices / page_size) inventory requests.
C5_RequestCountIsCeil ==
    (/\ pc = "done"
     /\ max_devices >= 1
     /\ page_size >= 1
     /\ AllPagesFull) =>
        Cardinality(InvIdx) = Ceil(max_devices, page_size)

C5_Witness ==
    /\ pc = "done"
    /\ max_devices = 3
    /\ page_size = 2
    /\ AllPagesFull
    /\ Cardinality(InvIdx) = 2
    /\ Len(ret) = 3

\* the records of the pages answered 200, in the order of the requests
RECURSIVE Fetched(_)
Fetched(l) ==
    IF Len(l) = 0 THEN <<>>
    ELSE LET e == l[Len(l)]
             front == Fetched(SubSeq(l, 1, Len(l) - 1))
         IN  IF e.kind = "inventory" /\ e.status = 200
             THEN front \o [i \in 1..e.n |-> <<e.page, i>>]
             ELSE front

\* the first k elements of s, none when k <= 0
Take(s, k) == [i \in 1..(IF k < Len(s) THEN (IF k > 0 THEN k ELSE 0) ELSE Len(s)) |-> s[i]]

Min(a, b) == IF a < b THEN a ELSE b

\* C6: inventory requests go out one after the other for pages 0, 1, 2, ...
\* (a page is asked again only as the retry of its 401), and a call that
\* returns returns the first min(max_devices, N) of the N records fetched, in
\* page order: never more than max_devices, only the last page cut.
C6_PagesInOrderResultIsPrefix ==
    /\ \A i \in InvIdx :
          /\ (\A k \in InvIdx : k >= i) => log[i].page = 0
          /\ \A j \in InvIdx :
                (i < j /\ \A k \in InvIdx : ~(i < k /\ k < j)) =>
                    \/ log[i].status = 200 /\ log[j].page = log[i].page + 1
                    \/ RetryPair(i, j)
                         /\ \A k \in InvIdx : k < i => log[k].page < log[i].page
    /\ pc = "done" =>
          /\ ret = Take(Fetched(log), Min(max_devices, Len(Fetched(log))))
          /\ Len(ret) <= (IF max_devices > 0 THEN max_devices ELSE 0)

C6_Witness ==
    /\ pc = "done"
    /\ max_devices = 3
    /\ page_size = 2
    /\ Cardinality(InvIdx) = 2
    /\ Len(Fetched(log)) = 4
    /\ ret = <<<<0, 1>>, <<0, 2>>, <<1, 1>>>>

\* the number of records accumulated once the response at log index i is in
Accumulated(i) == Len(Fetched(SubSeq(log, 1, i)))

\* the response at log index i ends the pagination
StopsAt(i) ==
    /\ log[i].status = 200
    /\ \/ Accumulated(i) >= max_devices
       \/ log[i].n = 0
       \/ log[i].n < page_size

C7_NoRequestAfterStop ==
    page_size >= 1 =>
        /\ \A i \in InvIdx : StopsAt(i) => \A k \in InvIdx : k <= i
        /\ (pc = "done" /\ InvIdx # {}) =>
              \E i \in InvIdx : StopsAt(i) /\ i = Len(log)
        /\ (pc = "done" /\ InvIdx = {}) => max_devices <= 0
        /\ (pc = "while" /\ InvIdx # {}) =>
              LET i == Len(log)
              IN  /\ i \in InvIdx
                  /\ (~StopsAt(i)) => (page = log[i].page + 1 /\ Len(results) < max_devices)

\* C7: with page_size >= 1, no inventory request follows a response after
\* which the accumulated count has reached max_devices, or which held no
\* record, or fewer than page_size records; as long as none of these has
\* happened and nothing was raised, the next page is requested; and every
\* call ends, returning or raising.
C7_PaginationTerminates ==
    /\ []C7_NoRequestAfterStop
    /\ ((pc \notin {"idle", "done", "raised"} /\ page_size >= 1)
            ~> (pc \in {"done", "raised"}))

C7_Witness ==
    /\ pc = "done"
    /\ page_size = 2
    /\ max_devices = 3
    /\ Len(log) = 3
    /\ log[2].n = 2
    /\ log[3].n = 1
    /\ ret = <<<<0, 1>>, <<0, 2>>, <<1, 1>>>>

\* C8 as stated: with page_size <= 0 (and max_devices >= 1) the call fails
\* with an invalid-configuration error before anything is put on the network.
C8_PageSizeValidated ==
    (pc # "idle" /\ page_size <= 0 /\ max_devices >= 1) =>
        /\ log = <<>>
        /\ pc # "done"
        /\ pc = "raised" => err.kind = "ConfigError"

\* ============================================== properties: the aggregator
\* s is "a.b" with a and b non-empty digit strings
IsIntPair(s) ==
    LET parts == split(s)
    IN  /\ Len(parts) = 2
        /\ Len(parts[1]) > 0 /\ Len(parts[2]) > 0
        /\ \A i \in 1..Len(s) : s[i] \in Digits \cup {"."}

\* the integer pair (major, minor) of "a.b"
PairOf(s) == <<int_of(split(s)[1]), int_of(split(s)[2])>>

\* the order on pairs: major first, minor second
PairGE(x, y) == x[1] > y[1] \/ (x[1] = y[1] /\ x[2] >= y[2])

CountOf(counter, key) == IF key \in DOMAIN counter THEN counter[key] ELSE 0

\* the for loop is about to handle a device
AtDevice == apc = "loop" /\ di <= Len(devices)

\* the version string of the record is there: a non-empty string
VersionPresent(d) == d.os = "dict" /\ d.ver = "str" /\ d.vstr # <<>>

\* the policy's required controls are on
ControlsSatisfied(d, c) ==
    /\ c.require_filevault = "false" \/ (d.sec = "dict" /\ d.fv = "true")
    /\ c.require_firewall = "false" \/ (d.sec = "dict" /\ d.fw = "true")

\* the snapshot reports the length of the list and the loop's counters
SnapshotReportsLoop ==
    apc' = "done" =>
        /\ snapshot'.total_devices = Len(devices)
        /\ snapshot'.noncompliant_count = noncompliant
        /\ snapshot'.os_version_breakdown = os_counts

\* C1 as stated: for a device on version a.b and a minimum c.d (integer
\* components, required controls on) the device is compliant iff
\* (a, b) >= (c, d) in the order major first, minor second.
C1_VersionOrderIsPairOrder ==
    [][ (/\ AtDevice
         /\ VersionPresent(devices[di])
         /\ IsIntPair(devices[di].vstr)
         /\ IsIntPair(min_macos_of(config))
         /\ ControlsSatisfied(devices[di], config)) =>
            ((noncompliant' = noncompliant) <=>
                 PairGE(PairOf(devices[di].vstr), PairOf(min_macos_of(config)))) ]_vars

\* the version string is there, is not the word "unknown", and float() rejects it
Unparseable(d) ==
    /\ VersionPresent(d)
    /\ d.vstr # UNKNOWN
    /\ ~parse_version(d.vstr).ok

\* C9 as stated: a device whose version is present but unparseable counts
\* in total_devices and in noncompliant_count and is tallied under "unknown".
C9_UnparseableTalliedUnknown ==
    [][ /\ (AtDevice /\ Unparseable(devices[di])) =>
              /\ noncompliant' = noncompliant + 1
              /\ CountOf(os_counts', UNKNOWN) = CountOf(os_counts, UNKNOWN) + 1
        /\ SnapshotReportsLoop ]_vars

\* C9 amended: a device whose version is present (and not the word
\* "unknown") but unparseable counts in total_devices and in
\* noncompliant_count and is tallied under its own version string, the tally
\* of "unknown" staying as it was.
C9_UnparseableTalliedUnderItself ==
    [][ /\ (AtDevice /\ Unparseable(devices[di])) =>
              /\ noncompliant' = noncompliant + 1
              /\ CountOf(os_counts', devices[di].vstr)
                    = CountOf(os_counts, devices[di].vstr) + 1
              /\ CountOf(os_counts', UNKNOWN) = CountOf(os_counts, UNKNOWN)
        /\ SnapshotReportsLoop ]_vars

C9_Witness ==
    /\ apc = "done"
    /\ Len(devices) = 2
    /\ devices[1] = Device("dict", "str", V_NA, "dict", "true", "true")
    /\ devices[2] = Device("dict", "str", V_14_9, "dict", "true", "true")
    /\ config = Config(TRUE, V_14_0, "true", "true")
    /\ snapshot.total_devices = 2
    /\ snapshot.noncompliant_count = 1
    /\ snapshot.os_version_breakdown = (V_NA :> 1 @@ V_14_9 :> 1)

\* the record has no version: no operating system section, or no version
\* in it, or a null or empty one
VersionAbsent(d) ==
    \/ d.os \in {"missing", "null"}
    \/ d.os = "dict" /\ (d.ver \in {"missing", "null"} \/ d.vstr = <<>>)

\* C10: a device without a version counts in total_devices and under
\* "unknown" in the breakdown and never in noncompliant_count, whatever its
\* controls and whatever the policy requires.
C10_AbsentVersionNeverNoncompliant ==
    [][ /\ (AtDevice /\ VersionAbsent(devices[di])) =>
              /\ noncompliant' = noncompliant
              /\ CountOf(os_counts', UNKNOWN) = CountOf(os_counts, UNKNOWN) + 1
        /\ SnapshotReportsLoop ]_vars

C10_Witness ==
    /\ apc = "done"
    /\ Len(devices) = 3
    /\ devices[1] = Device("missing", "missing", <<>>, "dict", "false", "false")
    /\ devices[2] = Device("dict", "str", <<>>, "dict", "missing", "true")
    /\ devices[3] = Device("dict", "null", <<>>, "null", "missing", "missing")
    /\ config = Config(TRUE, V_14_9, "true", "true")
    /\ snapshot.total_devices = 3
    /\ snapshot.noncompliant_count = 0
    /\ snapshot.filevault_disabled_count = 3
    /\ snapshot.os_version_breakdown = (UNKNOWN :> 3)

\* the record has a section of the wrong type
Malformed(d) == d.os = "str" \/ d.sec = "str"

\* C11 as stated: no device record, however malformed, makes
\* build_fleet_snapshot raise; the call always gets to its snapshot, which
\* counts every record of the list.
C11_MalformedRecordNeverRaises ==
    /\ apc # "raised"
    /\ apc = "done" => snapshot.total_devices = Len(devices)

Abs(x) == IF x < 0 THEN 0 - x ELSE x

\* p hundredths of a percent is n / t * 100 rounded to two decimals: no
\* other multiple of 0.01 is nearer to the quotient
IsRoundedPercentage(p, n, t) == 2 * Abs(p * t - n * 10000) <= t

\* C12: the snapshot's total_devices is the length of the list and its
\* noncompliant_percentage is noncompliant_count / total_devices * 100
\* rounded to two decimals; the empty list gives 0, 0 and 0.0, and no list
\* of well-formed records makes the call raise.
C12_TotalAndPercentage ==
    /\ (\A i \in 1..Len(devices) : ~Malformed(devices[i])) => apc # "raised"
    /\ apc = "done" =>
          /\ snapshot.total_devices = Len(devices)
          /\ snapshot.noncompliant_count \in 0..Len(devices)
          /\ IF Len(devices) = 0
             THEN /\ snapshot.noncompliant_count = 0
                  /\ snapshot.noncompliant_percentage = 0
             ELSE IsRoundedPercentage(snapshot.noncompliant_percentage,
                                      snapshot.noncompliant_count,
                                      snapshot.total_devices)

C12_Witness ==
    /\ apc = "done"
    /\ snapshot.total_devices = 3
    /\ snapshot.noncompliant_count = 2
    /\ snapshot.noncompliant_percentage = 6667

\* the inventory request at log index i got a non-success answer other than
\* 401, or no answer at all
FailedOtherThan401(i) == i \in InvIdx /\ log[i].status \notin {200, 401}

\* C13: an inventory request answered with a non-success status other than
\* 401, or failing on the network, ends the call with an exception: it is the
\* last request of the call (no retry, no token request, no further page) and
\* nothing is returned, whatever pages were accumulated before.
C13_OtherFailureRaisesAtOnce ==
    \A i \in 1..Len(log) :
        FailedOtherThan401(i) =>
            /\ i = Len(log)
            /\ pc \in {"status", "raised"}
            /\ ret = <<>>
            /\ log[i].status = 0 => pc = "raised"
            /\ pc = "raised" => (err.kind # "none" /\ err.status = log[i].status)

C13_Witness ==
    /\ pc = "raised"
    /\ page = 1
    /\ Len(results) = 2
    /\ FailedOtherThan401(Len(log))
    /\ log[Len(log)].status = 500
    /\ log[Len(log) - 2].status = 401
    /\ ret = <<>>

\* ---------------------------------------------------------------- C14
\* a token request that brought no token
FailedToken(i) == i \in TokIdx /\ log[i].tok = 0

\* C14 as the specification words it: on one instance, over all its pages and
\* calls, as long as no response was a 401 no more than one token request
\* is ever issued.
C14_OneTokenRequestWithout401 == ~sent.unauthorized => sent.token <= 1

\* where the token requests of a call stand, what a failed one leaves, and
\* which token the inventory requests carry
TokenRequestsInPlace ==
    /\ \A i \in TokIdx :
          /\ i = 1 \/ (i - 1 \in InvIdx /\ log[i - 1].status = 401)
          /\ log[i].tok # 0 =>
                (i < Len(log) /\ i + 1 \in InvIdx /\ log[i + 1].tok = log[i].tok)
    /\ \A i \in 1..Len(log) : FailedToken(i) =>
          (i = Len(log) /\ pc = "raised" /\ err # NoErr /\ token = 0)
    /\ \A i \in InvIdx :
          /\ log[i].tok # 0
          /\ (i > 1 /\ i - 1 \in InvIdx /\ log[i - 1].status # 401) =>
                log[i].tok = log[i - 1].tok
    /\ (sent.inventory /\ ~sent.unauthorized /\ ~sent.token_failed) => sent.token = 1

\* a step issues at most one token request, and only with no token cached
TokenRequestedOnlyUncached ==
    sent'.token # sent.token => (token = 0 /\ sent'.token = sent.token + 1)

\* C14, amended: a token request is issued only when no token is cached,
\* which within a call is before its first inventory request or directly
\* after an inventory 401; a token obtained is the one the following requests
\* carry; a failed acquisition raises and leaves no token cached; and an
\* instance that has issued an inventory request, has seen no 401 and no
\* failed acquisition, has issued exactly one token request over all its
\* pages and calls.
C14_TokenLazyAndCached ==
    /\ []TokenRequestsInPlace
    /\ [][TokenRequestedOnlyUncached]_vars

\* the second call of an instance ends, having fetched two pages with the
\* token the first call acquired: one token request in all
C14_Witness ==
    /\ calls = 2
    /\ pc = "done"
    /\ Len(log) = 2
    /\ \A i \in 1..Len(log) : i \in InvIdx /\ log[i].status = 200 /\ log[i].tok = 1
    /\ sent.token = 1
    /\ ~sent.unauthorized
    /\ ~sent.token_failed
\* ---------------------------------------------------------------- C15
\* base URL, client id or client secret neither passed nor in the
\* environment, or empty
Absent(arg, env) == ~Truthy(arg) /\ ~Truthy(env)
AnyAbsent(a) ==
    \/ Absent(a.base_url, a.env_base_url)
    \/ Absent(a.client_id, a.env_client_id)
    \/ Absent(a.client_secret, a.env_client_secret)

\* a failed construction has put nothing on the network and no call runs on it
NoRequestFromFailedClient ==
    client.state \in {"none", "raised"} =>
        (sent = NothingSent /\ log = <<>> /\ pc = "idle" /\ calls = 0)

\* the construction with a setting absent raises, and what was raised stays so
AbsentSettingRaises ==
    /\ (client.state = "none" /\ client' # client /\ AnyAbsent(ctor_args)) =>
          client'.state = "raised"
    /\ client.state = "raised" => client' = client

\* C15: JamfClient(...) with the base URL, the client id or the client
\* secret absent (neither passed nor in the environment, or empty) raises
\* before any request is sent, and nothing is ever requested through it.
C15_AbsentSettingFailsConstruction ==
    /\ []NoRequestFromFailedClient
    /\ [][AbsentSettingRaises]_vars

\* the construction has raised for the secret alone: base URL and client id
\* were there
C15_Witness ==
    /\ client.state = "raised"
    /\ client.base_url # <<>>
    /\ client.client_id # <<>>
    /\ client.client_secret = <<>>
    /\ sent = NothingSent
\* ---------------------------------------------------------------- C16
\* the text is a JSON object
IsObject(r) == r.type = "dict"

\* C16: whatever text the generator returned, analyze_fleet returns; a text
\* that is not a JSON object comes back as the summary with the other two
\* fields empty.  Only an error of the generator itself may make it raise.
C16_AnswerShapeNeverFails ==
    /\ advice.state = "raised" => advice.error = "generator"
    /\ (advice.state = "returned" /\ ~IsObject(raw)) =>
          /\ advice.summary = raw.text
          /\ advice.remediation_plan = ""
          /\ advice.slack_message = ""
\* ---------------------------------------------------------------- C17
\* how many of the devices satisfy P, wherever they stand in the list
Count(P(_)) == Cardinality({i \in 1..Len(devices) : P(devices[i])})

FileVaultOff(d) == require_of(config.require_filevault) /\ ~control_of(d, d.fv)
FirewallOff(d) == require_of(config.require_firewall) /\ ~control_of(d, d.fw)
IsNoncompliant(d) == CountsNoncompliant(d, config)

\* the snapshot as a function of the devices as a bag and of the policy: no
\* term depends on the position of a device
SnapshotOfBag ==
    [total_devices |-> Len(devices),
     os_version_breakdown |->
         [k \in {os_version_of(devices[i]) : i \in 1..Len(devices)} |->
             Cardinality({i \in 1..Len(devices) : os_version_of(devices[i]) = k})],
     filevault_disabled_count |-> Count(FileVaultOff),
     firewall_disabled_count |-> Count(FirewallOff),
     noncompliant_count |-> Count(IsNoncompliant),
     noncompliant_percentage |-> Percentage(Count(IsNoncompliant), Len(devices)),
     min_macos_version |-> min_macos_of(config),
     require_filevault |-> require_of(config.require_filevault),
     require_firewall |-> require_of(config.require_firewall),
     max_noncompliant_percentage |-> max_percentage_of(config)]

ResultIsOrderFree ==
    /\ apc = "done" =>
          /\ snapshot = SnapshotOfBag
          /\ \A i \in 1..Len(devices) : ~Malformed(devices[i])
    /\ apc = "raised" => \E i \in 1..Len(devices) : Malformed(devices[i])

InputsUntouched == devices' = devices /\ config' = config

\* C17: the snapshot build_fleet_snapshot returns is a function of the
\* devices as a bag and of the policy, so every permutation of the list gives
\* an equal snapshot (and raises for the same lists); the device list and the
\* policy are never modified.
C17_OrderIndependentAndPure ==
    /\ []ResultIsOrderFree
    /\ [][InputsUntouched]_vars

\* a snapshot returned for three different devices, two versions tallied,
\* one device of them noncompliant
C17_Witness ==
    /\ apc = "done"
    /\ Len(devices) = 3
    /\ devices[1] # devices[2] /\ devices[2] # devices[3] /\ devices[1] # devices[3]
    /\ Cardinality(DOMAIN snapshot.os_version_breakdown) = 2
    /\ snapshot.noncompliant_count = 1
    /\ snapshot.filevault_disabled_count = 1
\* ---------------------------------------------------------------- C18
Is401(i) == i \in InvIdx /\ log[i].status = 401

\* request i is the first request of its page in this call
FirstOfPage(i) == i \in InvIdx /\ \A k \in InvIdx : k < i => log[k].page # log[i].page

\* the token requests that follow a 401 of page p
Reacquisitions(p) ==
    {k \in TokIdx : k > 1 /\ Is401(k - 1) /\ log[k - 1].page = p}

Pages == {log[i].page : i \in InvIdx}

\* C18 as the specification words it: over all pages of one call the token
\* is re-acquired after a 401 at most once, and a second 401 in the call, on
\* the same page or on a later one, ends the call.
C18_OneExpiryPerCall ==
    /\ Cardinality(UNION {Reacquisitions(p) : p \in Pages}) <= 1
    /\ \A i \in InvIdx, j \in InvIdx :
          (Is401(i) /\ Is401(j) /\ i < j) =>
              (j = Len(log) /\ pc \in {"status", "raised"})

\* C18, amended: a call tolerates one token-expiry event per page.  The
\* first request of any page answered 401 drops the token and is retried with
\* a token acquired afresh, whatever happened on earlier pages; for one page
\* the token is re-acquired at most once, and a 401 to the retry is fatal:
\* it is the last request of the call and no token is dropped for it.
C18_OneExpiryPerPage ==
    /\ \A p \in Pages :
          /\ Cardinality(Reacquisitions(p)) <= 1
          /\ Cardinality({i \in InvIdx : Is401(i) /\ log[i].page = p}) <= 2
    /\ \A i \in InvIdx :
          (Is401(i) /\ FirstOfPage(i)) =>
              /\ i = Len(log) => (pc = "retry" /\ token = 0)
              /\ i < Len(log) => (i + 1 \in TokIdx /\ i + 1 \in Reacquisitions(log[i].page))
    /\ \A i \in InvIdx :
          (Is401(i) /\ ~FirstOfPage(i)) =>
              /\ i = Len(log)
              /\ pc \in {"status", "raised"}
              /\ token = log[i].tok
              /\ pc = "raised" => err.status = 401

\* a call that met an expired token on page 0 and again on page 1, retried
\* both and returned
C18_Witness ==
    /\ pc = "done"
    /\ \E i \in InvIdx, j \in InvIdx :
          /\ Is401(i) /\ log[i].page = 0
          /\ Is401(j) /\ log[j].page = 1
    /\ Cardinality(Reacquisitions(0)) = 1
    /\ Cardinality(Reacquisitions(1)) = 1
    /\ Len(ret) = 2
\* ---------------------------------------------------------------- C19
\* the sum of the counts of a tally over the keys S
RECURSIVE SumOver(_, _)
SumOver(counter, S) ==
    IF S = {} THEN 0
    ELSE LET k == CHOOSE x \in S : TRUE
         IN  counter[k] + SumOver(counter, S \ {k})

\* the version the loop read is not "unknown"
KnownVersion(d) == os_version_of(d) # UNKNOWN

\* a control the policy requires is off on the device
RequiredControlOff(d) == FileVaultOff(d) \/ FirewallOff(d)
KnownWithControlOff(d) == KnownVersion(d) /\ RequiredControlOff(d)

SnapshotInvariants ==
    apc = "done" =>
        LET total == snapshot.total_devices
            breakdown == snapshot.os_version_breakdown
        IN  /\ SumOver(breakdown, DOMAIN breakdown) = total
            /\ total = Len(devices)
            /\ snapshot.noncompliant_count >= 0
            /\ snapshot.noncompliant_count <= total - Count(VersionAbsent)
            /\ snapshot.filevault_disabled_count \in 0..total
            /\ snapshot.firewall_disabled_count \in 0..total
            /\ ~snapshot.require_filevault => snapshot.filevault_disabled_count = 0
            /\ ~snapshot.require_firewall => snapshot.firewall_disabled_count = 0
            /\ snapshot.noncompliant_count >= Count(KnownWithControlOff)

\* the step over a device of known version with a required control off
\* counts it
ControlOffCounted ==
    (AtDevice /\ di' = di + 1 /\ KnownWithControlOff(devices[di])) =>
        noncompliant' = noncompliant + 1

\* C19: in every snapshot returned the counts of os_version_breakdown sum to
\* total_devices; noncompliant_count lies between 0 and total_devices less
\* the devices without a version; the two disabled counts lie in
\* 0..total_devices and are 0 when their control is not required; and every
\* device of known version with a required control off is counted
\* noncompliant.
C19_SnapshotInvariants ==
    /\ []SnapshotInvariants
    /\ [][ControlOffCounted]_vars

\* a snapshot of three devices, one without a version and two of known
\* version with FileVault off: both counted, the bound reached
C19_Witness ==
    /\ apc = "done"
    /\ snapshot.total_devices = 3
    /\ Count(VersionAbsent) = 1
    /\ Count(KnownWithControlOff) = 2
    /\ snapshot.noncompliant_count = 2
    /\ snapshot.require_filevault /\ ~snapshot.require_firewall
    /\ snapshot.filevault_disabled_count >= 2
    /\ snapshot.firewall_disabled_count = 0
\* ---------------------------------------------------------------- C20
\* the dict the last call returned, its slack read through the reference
ValueOf(l) ==
    [min_macos_version |-> l.min_macos_version,
     require_filevault |-> l.require_filevault,
     slack |-> default_config.slack]

\* the last call was load_config() with no path and no environment override
LoadedDefaults == loaded.state = "returned" /\ loaded.path = ""

\* C20: whatever load_config calls came before, DEFAULT_CONFIG still holds
\* the built-in values, its nested slack mapping included, and load_config
\* with no path and no environment override returns exactly those.
C20_DefaultsNeverChange ==
    /\ default_config = DEFAULT_CONFIG
    /\ LoadedDefaults =>
          (loaded.slack_is = "shared" /\ ValueOf(loaded) = DEFAULT_CONFIG)
====
